---- MODULE Spec2Model ----
(***************************************************************************)
(* A model of cpp-channel: internal::_channel<T, N> (include/channel.h),   *)
(* its two-phase _send and its receive operation, run by threads that      *)
(* execute small programs of channel operations.                           *)
(*                                                                         *)
(* Every step taken while holding m_mutex is a separate action, and the    *)
(* three condition variables are sets of waiting threads: wait(lock, pred) *)
(* is `while (!pred()) wait(lock)`, notify_one() removes one waiter (any   *)
(* one) or does nothing when nobody waits, and a waiter may also wake      *)
(* spuriously.                                                             *)
(***************************************************************************)
EXTENDS Integers, Sequences, FiniteSets, TLC

\* ---- bounds of the model ----
NumThreads == 4      \* threads in all
CoreThreads == 3     \* threads that run a program of MaxOps operations
NumChans == 2
MaxCap == 2
MaxOps == 2

Threads == 1..NumThreads
Chans == 1..NumChans
NoThread == 0

VARIABLES
  cap,              \* cap[c]: the template parameter N of channel c
  m_buffer,         \* m_buffer[c]: sequence of [sender, val] (deque of pairs)
  m_is_send_done,   \* m_is_send_done[c]
  m_mutex,          \* m_mutex[c]: the owning thread, or NoThread
  m_send_begin_cv,  \* threads blocked in m_send_begin_cv.wait
  m_send_end_cv,    \* threads blocked in m_send_end_cv.wait
  m_recv_cv,        \* threads blocked in m_recv_cv.wait
  prog,             \* prog[t]: the operations thread t performs, in order
  ip,               \* ip[t]: index in prog[t] of the current operation
  pc,               \* pc[t]: position inside the current operation
  cur,              \* cur[t]: the channel operation in progress
  got,              \* got[t]: the values thread t's receives returned, in order
  deposited,        \* deposited[c]: every element pushed, in push order
  dequeued,         \* dequeued[c]: every element popped, in pop order
  taker,            \* taker[c]: who did each pop, [thread, op], in pop order
  sel_i,            \* sel_i[t]: the case a select descriptor is examining
  fired,            \* fired[t]: the select cases that fired, [op, case], in order
  called,           \* called[t]: the select callbacks that ran, [op, case]
  assert_self,      \* assert(!is_full() || this_thread != pair.first) never failed
  assert_full,      \* assert(!is_full()) after pop_front never failed
  handle,           \* handle[k]: the k-th channel / ichannel / ochannel variable
  made,             \* made[k]: the constructor call whose object handle[k] denotes
  nmade             \* the number of calls of channel() so far

vars == <<cap, m_buffer, m_is_send_done, m_mutex, m_send_begin_cv,
          m_send_end_cv, m_recv_cv, prog, ip, pc, cur, got, deposited,
          dequeued, taker, sel_i, fired, called, assert_self, assert_full,
          handle, made, nmade>>

chanVars == <<m_buffer, m_is_send_done>>
cvVars == <<m_send_begin_cv, m_send_end_cv, m_recv_cv>>
logVars == <<deposited, dequeued, taker>>
assertVars == <<assert_self, assert_full>>
selVars == <<sel_i, fired, called>>
handleVars == <<handle, made, nmade>>

NoOp == [kind |-> "none", ch |-> 0, val |-> 0, mode |-> "", cases |-> <<>>]

\* ---- programs ----
\* The value thread t sends in its i-th operation: all values are distinct,
\* so that an element can be followed from its send to its receive.
ValueOf(t, i) == 10 * t + i

SendOp(c, v) == [kind |-> "send", ch |-> c, val |-> v, mode |-> "", cases |-> <<>>]

RecvOp(c) == [kind |-> "recv", ch |-> c, val |-> 0, mode |-> "", cases |-> <<>>]

\* cpp::select() with its cases, in insertion order, and the completion method
\* called on it: "wait", "wait_for" or "try_once"
SelectOp(mode, cases) ==
  [kind |-> "select", ch |-> 0, val |-> 0, mode |-> mode, cases |-> cases]

\* ---- internal::_channel ----
\* mutant: the comparison is off by one
is_full_buf_OffByOne(buf, c) == Len(buf) > cap[c] + 1

is_full_buf(buf, c) == Len(buf) > cap[c]

is_full(c) == is_full_buf(m_buffer[c], c)

\* mutant: the deposit does not wait for the send in progress
SendBeginPred_NoFlag(c) == ~is_full(c)

\* mutant: the negation of is_full() is missing
SendBeginPred_Negated(c) == is_full(c) /\ m_is_send_done[c]

SendBeginPred(c) == ~is_full(c) /\ m_is_send_done[c]

\* mutant: the acknowledgement step does not wait
SendEndPred_NoWait(c) == TRUE

SendEndPred(c) == ~is_full(c)

NonEmpty(c) == m_buffer[c] # <<>>

emplace_back(buf, t, v) == Append(buf, [sender |-> t, val |-> v])

\* mutant: the element is taken from the wrong end
front_Back(buf) == buf[Len(buf)]

front(buf) == Head(buf)

pop_front(buf) == Tail(buf)

\* mutant: the notification is lost
notify_one_Lost(S) == {S}

\* std::condition_variable::notify_one on the set S of waiting threads
notify_one(S) == IF S = {} THEN {S} ELSE {S \ {w} : w \in S}

Lock(t, c) == m_mutex[c] = NoThread /\ m_mutex' = [m_mutex EXCEPT ![c] = t]

Unlock(t, c) == m_mutex[c] = t /\ m_mutex' = [m_mutex EXCEPT ![c] = NoThread]

Op(t) == IF ip[t] <= Len(prog[t]) THEN prog[t][ip[t]] ELSE NoOp

\* the channel operation returns: to the thread function, or to the select
\* descriptor whose case it is
Return(t) ==
  IF Op(t).kind = "select"
    THEN /\ pc' = [pc EXCEPT ![t] = "sel_callback"]
         /\ UNCHANGED <<ip, cur>>
    ELSE /\ ip' = [ip EXCEPT ![t] = @ + 1]
         /\ pc' = [pc EXCEPT ![t] = "idle"]
         /\ cur' = [cur EXCEPT ![t] = NoOp]

ChannelInit ==
  /\ m_buffer = [c \in Chans |-> <<>>]
  /\ m_is_send_done = [c \in Chans |-> TRUE]
  /\ m_mutex = [c \in Chans |-> NoThread]
  /\ m_send_begin_cv = [c \in Chans |-> {}]
  /\ m_send_end_cv = [c \in Chans |-> {}]
  /\ m_recv_cv = [c \in Chans |-> {}]

ThreadInit ==
  /\ ip = [t \in Threads |-> 1]
  /\ pc = [t \in Threads |-> "idle"]
  /\ cur = [t \in Threads |-> NoOp]
  /\ got = [t \in Threads |-> <<>>]
  /\ deposited = [c \in Chans |-> <<>>]
  /\ dequeued = [c \in Chans |-> <<>>]
  /\ taker = [c \in Chans |-> <<>>]
  /\ sel_i = [t \in Threads |-> 1]
  /\ fired = [t \in Threads |-> <<>>]
  /\ called = [t \in Threads |-> <<>>]
  /\ assert_self = TRUE
  /\ assert_full = TRUE
  /\ handle = <<>> /\ made = <<>> /\ nmade = 0

\* ---- _send, phase A ----
\* std::unique_lock<std::mutex> lock(m_mutex);
SendLock(t) ==
  /\ pc[t] = "idle"
  /\ Op(t).kind = "send"
  /\ Lock(t, Op(t).ch)
  /\ cur' = [cur EXCEPT ![t] = Op(t)]
  /\ pc' = [pc EXCEPT ![t] = "send_begin_wait"]
  /\ UNCHANGED <<handleVars, selVars, cap, chanVars, cvVars, prog, ip, got, logVars, assertVars>>

\* m_send_begin_cv.wait(lock, [this]{ return !is_full() && m_is_send_done; });
SendBeginWait(t) ==
  LET c == cur[t].ch IN
  /\ pc[t] = "send_begin_wait"
  /\ IF SendBeginPred(c)
       THEN /\ pc' = [pc EXCEPT ![t] = "send_deposit"]
            /\ UNCHANGED <<m_mutex, m_send_begin_cv>>
       ELSE /\ Unlock(t, c)
            /\ m_send_begin_cv' = [m_send_begin_cv EXCEPT ![c] = @ \cup {t}]
            /\ pc' = [pc EXCEPT ![t] = "send_begin_blocked"]
  /\ UNCHANGED <<handleVars, selVars, cap, chanVars, m_send_end_cv, m_recv_cv, prog, ip, cur, got,
                 logVars, assertVars>>

\* the wait returns after a notification (or spuriously) and takes the mutex again
SendBeginWake(t) ==
  LET c == cur[t].ch IN
  /\ pc[t] = "send_begin_blocked"
  /\ t \notin m_send_begin_cv[c]
  /\ Lock(t, c)
  /\ pc' = [pc EXCEPT ![t] = "send_begin_wait"]
  /\ UNCHANGED <<handleVars, selVars, cap, chanVars, cvVars, prog, ip, cur, got, logVars, assertVars>>

\* m_buffer.emplace_back(get_id(), u); m_is_send_done = false; } (unlock)
SendDeposit(t) ==
  LET c == cur[t].ch IN
  /\ pc[t] = "send_deposit"
  /\ m_buffer' = [m_buffer EXCEPT ![c] = emplace_back(@, t, cur[t].val)]
  /\ m_is_send_done' = [m_is_send_done EXCEPT ![c] = FALSE]
  /\ deposited' = [deposited EXCEPT ![c] =
                     Append(@, [sender |-> t, val |-> cur[t].val])]
  /\ Unlock(t, c)
  /\ pc' = [pc EXCEPT ![t] = "send_notify_recv"]
  /\ UNCHANGED <<handleVars, selVars, cap, cvVars, prog, ip, cur, got, dequeued, taker, assertVars>>

\* m_recv_cv.notify_one();
SendNotifyRecv(t) ==
  LET c == cur[t].ch IN
  /\ pc[t] = "send_notify_recv"
  /\ \E S \in notify_one(m_recv_cv[c]) :
       m_recv_cv' = [m_recv_cv EXCEPT ![c] = S]
  /\ pc' = [pc EXCEPT ![t] = "send_end_lock"]
  /\ UNCHANGED <<handleVars, selVars, cap, chanVars, m_mutex, m_send_begin_cv, m_send_end_cv, prog,
                 ip, cur, got, logVars, assertVars>>

\* ---- _send, phase B ----
\* std::unique_lock<std::mutex> lock(m_mutex);
SendEndLock(t) ==
  /\ pc[t] = "send_end_lock"
  /\ Lock(t, cur[t].ch)
  /\ pc' = [pc EXCEPT ![t] = "send_end_wait"]
  /\ UNCHANGED <<handleVars, selVars, cap, chanVars, cvVars, prog, ip, cur, got, logVars, assertVars>>

\* m_send_end_cv.wait(lock, [this]{ return !is_full(); });
SendEndWait(t) ==
  LET c == cur[t].ch IN
  /\ pc[t] = "send_end_wait"
  /\ IF SendEndPred(c)
       THEN /\ pc' = [pc EXCEPT ![t] = "send_ack"]
            /\ UNCHANGED <<m_mutex, m_send_end_cv>>
       ELSE /\ Unlock(t, c)
            /\ m_send_end_cv' = [m_send_end_cv EXCEPT ![c] = @ \cup {t}]
            /\ pc' = [pc EXCEPT ![t] = "send_end_blocked"]
  /\ UNCHANGED <<handleVars, selVars, cap, chanVars, m_send_begin_cv, m_recv_cv, prog, ip, cur, got,
                 logVars, assertVars>>

SendEndWake(t) ==
  LET c == cur[t].ch IN
  /\ pc[t] = "send_end_blocked"
  /\ t \notin m_send_end_cv[c]
  /\ Lock(t, c)
  /\ pc' = [pc EXCEPT ![t] = "send_end_wait"]
  /\ UNCHANGED <<handleVars, selVars, cap, chanVars, cvVars, prog, ip, cur, got, logVars, assertVars>>

\* m_is_send_done = true; } (unlock)
SendAck(t) ==
  LET c == cur[t].ch IN
  /\ pc[t] = "send_ack"
  /\ m_is_send_done' = [m_is_send_done EXCEPT ![c] = TRUE]
  /\ Unlock(t, c)
  /\ pc' = [pc EXCEPT ![t] = "send_notify_begin"]
  /\ UNCHANGED <<handleVars, selVars, cap, m_buffer, cvVars, prog, ip, cur, got, logVars, assertVars>>

\* m_send_begin_cv.notify_one(); and _send returns
SendNotifyBegin(t) ==
  LET c == cur[t].ch IN
  /\ pc[t] = "send_notify_begin"
  /\ \E S \in notify_one(m_send_begin_cv[c]) :
       m_send_begin_cv' = [m_send_begin_cv EXCEPT ![c] = S]
  /\ Return(t)
  /\ UNCHANGED <<handleVars, selVars, cap, chanVars, m_mutex, m_send_end_cv, m_recv_cv, prog, got,
                 logVars, assertVars>>

\* ---- recv ----
\* std::unique_lock<std::mutex> lock(m_mutex);
RecvLock(t) ==
  /\ pc[t] = "idle"
  /\ Op(t).kind = "recv"
  /\ Lock(t, Op(t).ch)
  /\ cur' = [cur EXCEPT ![t] = Op(t)]
  /\ pc' = [pc EXCEPT ![t] = "recv_wait"]
  /\ UNCHANGED <<handleVars, selVars, cap, chanVars, cvVars, prog, ip, got, logVars, assertVars>>

\* _wait_until_nonempty(lock): m_recv_cv.wait(lock, [this]{ return !m_buffer.empty(); });
RecvWait(t) ==
  LET c == cur[t].ch IN
  /\ pc[t] = "recv_wait"
  /\ IF NonEmpty(c)
       THEN /\ pc' = [pc EXCEPT ![t] = "recv_take"]
            /\ UNCHANGED <<m_mutex, m_recv_cv>>
       ELSE /\ Unlock(t, c)
            /\ m_recv_cv' = [m_recv_cv EXCEPT ![c] = @ \cup {t}]
            /\ pc' = [pc EXCEPT ![t] = "recv_blocked"]
  /\ UNCHANGED <<handleVars, selVars, cap, chanVars, m_send_begin_cv, m_send_end_cv, prog, ip, cur,
                 got, logVars, assertVars>>

RecvWake(t) ==
  LET c == cur[t].ch IN
  /\ pc[t] = "recv_blocked"
  /\ t \notin m_recv_cv[c]
  /\ Lock(t, c)
  /\ pc' = [pc EXCEPT ![t] = "recv_wait"]
  /\ UNCHANGED <<handleVars, selVars, cap, chanVars, cvVars, prog, ip, cur, got, logVars, assertVars>>

\* pair(std::move(m_buffer.front())); assert(!is_full() || get_id() != pair.first);
\* m_buffer.pop_front(); assert(!is_full());
RecvTake(t) ==
  LET c == cur[t].ch
      pair == front(m_buffer[c])
  IN
  /\ pc[t] = "recv_take"
  /\ assert_self' = (assert_self /\ (~is_full(c) \/ t # pair.sender))
  /\ m_buffer' = [m_buffer EXCEPT ![c] = pop_front(@)]
  /\ assert_full' = (assert_full /\ ~is_full_buf(pop_front(m_buffer[c]), c))
  /\ dequeued' = [dequeued EXCEPT ![c] = Append(@, pair)]
  /\ taker' = [taker EXCEPT ![c] = Append(@, [thread |-> t, op |-> ip[t]])]
  /\ cur' = [cur EXCEPT ![t].val = pair.val]
  /\ pc' = [pc EXCEPT ![t] = "recv_unlock"]
  /\ UNCHANGED <<handleVars, selVars, cap, m_is_send_done, m_mutex, cvVars, prog, ip, got, deposited>>

\* lock.unlock();
RecvUnlock(t) ==
  /\ pc[t] = "recv_unlock"
  /\ Unlock(t, cur[t].ch)
  /\ pc' = [pc EXCEPT ![t] = "recv_notify"]
  /\ UNCHANGED <<handleVars, selVars, cap, chanVars, cvVars, prog, ip, cur, got, logVars, assertVars>>

\* m_send_end_cv.notify_one(); return pair.second;
RecvNotify(t) ==
  LET c == cur[t].ch IN
  /\ pc[t] = "recv_notify"
  /\ \E S \in notify_one(m_send_end_cv[c]) :
       m_send_end_cv' = [m_send_end_cv EXCEPT ![c] = S]
  /\ got' = [got EXCEPT ![t] = Append(@, cur[t].val)]
  /\ Return(t)
  /\ UNCHANGED <<handleVars, selVars, cap, chanVars, m_mutex, m_send_begin_cv, m_recv_cv, prog,
                 logVars, assertVars>>

\* ---- spurious wake-ups of std::condition_variable::wait ----
SpuriousWakeup(t) ==
  LET c == cur[t].ch IN
  /\ \/ /\ pc[t] = "send_begin_blocked" /\ t \in m_send_begin_cv[c]
        /\ m_send_begin_cv' = [m_send_begin_cv EXCEPT ![c] = @ \ {t}]
        /\ UNCHANGED <<m_send_end_cv, m_recv_cv>>
     \/ /\ pc[t] = "send_end_blocked" /\ t \in m_send_end_cv[c]
        /\ m_send_end_cv' = [m_send_end_cv EXCEPT ![c] = @ \ {t}]
        /\ UNCHANGED <<m_send_begin_cv, m_recv_cv>>
     \/ /\ pc[t] = "recv_blocked" /\ t \in m_recv_cv[c]
        /\ m_recv_cv' = [m_recv_cv EXCEPT ![c] = @ \ {t}]
        /\ UNCHANGED <<m_send_begin_cv, m_send_end_cv>>
  /\ UNCHANGED <<handleVars, selVars, cap, chanVars, m_mutex, prog, ip, pc, cur, got, logVars,
                 assertVars>>

Send(t) ==
  \/ SendLock(t) \/ SendBeginWait(t) \/ SendBeginWake(t) \/ SendDeposit(t)
  \/ SendNotifyRecv(t) \/ SendEndLock(t) \/ SendEndWait(t) \/ SendEndWake(t)
  \/ SendAck(t) \/ SendNotifyBegin(t)

Recv(t) ==
  \/ RecvLock(t) \/ RecvWait(t) \/ RecvWake(t) \/ RecvTake(t) \/ RecvUnlock(t)
  \/ RecvNotify(t)

\* the steps the scheduler owes a thread
Step(t) == Send(t) \/ Recv(t)

\* ---- select (spec.md 4.3: the select sources are not among the files) ----
\* A descriptor examines its cases in insertion order; a case is ready when its
\* channel could service it without blocking. A ready case is claimed under the
\* channel's mutex, where readiness is checked again; the claimed case performs
\* the full channel operation and runs its callback. A pass that fires nothing
\* is followed by another pass (wait), by a return (try_once), or by either
\* (wait_for, whose duration may have elapsed).
Case(t) == Op(t).cases[sel_i[t]]

\* receive case: buffer non-empty
RecvReady(c) == NonEmpty(c)

\* send case: buffer has room and no send is in progress
SendReady(c) == ~is_full(c) /\ m_is_send_done[c]

Ready(case) == IF case.dir = "recv" THEN RecvReady(case.ch) ELSE SendReady(case.ch)

\* wait(), wait_for(d) or try_once() is called
SelBegin(t) ==
  /\ pc[t] = "idle"
  /\ Op(t).kind = "select"
  /\ pc' = [pc EXCEPT ![t] = "sel_scan"]
  /\ sel_i' = [sel_i EXCEPT ![t] = 1]
  /\ UNCHANGED <<handleVars, cap, chanVars, m_mutex, cvVars, prog, ip, cur, got, logVars,
                 fired, called, assertVars>>

\* mutant: a ready receive case takes its element when it is noticed
SelQuery_TakesEarly(t) ==
  LET case == Case(t) IN
  /\ pc[t] = "sel_scan"
  /\ sel_i[t] <= Len(Op(t).cases)
  /\ m_mutex[case.ch] = NoThread
  /\ IF Ready(case)
       THEN /\ pc' = [pc EXCEPT ![t] = "sel_claim"]
            /\ sel_i' = sel_i
            /\ m_buffer' = [m_buffer EXCEPT ![case.ch] =
                              IF case.dir = "recv" THEN pop_front(@) ELSE @]
       ELSE /\ sel_i' = [sel_i EXCEPT ![t] = @ + 1]
            /\ UNCHANGED <<pc, m_buffer>>
  /\ UNCHANGED <<handleVars, cap, m_is_send_done, m_mutex, cvVars, prog, ip, cur, got,
                 logVars, fired, called, assertVars>>

\* the next case is examined: could its channel service it without blocking?
SelQuery(t) ==
  LET case == Case(t) IN
  /\ pc[t] = "sel_scan"
  /\ sel_i[t] <= Len(Op(t).cases)
  /\ m_mutex[case.ch] = NoThread
  /\ IF Ready(case)
       THEN /\ pc' = [pc EXCEPT ![t] = "sel_claim"]
            /\ sel_i' = sel_i
       ELSE /\ sel_i' = [sel_i EXCEPT ![t] = @ + 1]
            /\ pc' = pc
  /\ UNCHANGED <<handleVars, cap, chanVars, m_mutex, cvVars, prog, ip, cur, got, logVars,
                 fired, called, assertVars>>

\* the claim, under the channel's mutex: the case fires if its channel is still
\* ready, and the scan continues if it is not
SelClaim(t) ==
  LET case == Case(t) IN
  /\ pc[t] = "sel_claim"
  /\ m_mutex[case.ch] = NoThread
  /\ IF Ready(case)
       THEN /\ m_mutex' = [m_mutex EXCEPT ![case.ch] = t]
            /\ cur' = [cur EXCEPT ![t] =
                         IF case.dir = "recv" THEN RecvOp(case.ch)
                                              ELSE SendOp(case.ch, case.val)]
            /\ pc' = [pc EXCEPT ![t] =
                        IF case.dir = "recv" THEN "recv_take" ELSE "send_deposit"]
            /\ fired' = [fired EXCEPT ![t] =
                           Append(@, [op |-> ip[t], case |-> sel_i[t]])]
            /\ sel_i' = sel_i
       ELSE /\ sel_i' = [sel_i EXCEPT ![t] = @ + 1]
            /\ pc' = [pc EXCEPT ![t] = "sel_scan"]
            /\ UNCHANGED <<m_mutex, cur, fired>>
  /\ UNCHANGED <<handleVars, cap, chanVars, cvVars, prog, ip, got, logVars, called,
                 assertVars>>

\* mutant: the descriptor goes to sleep and is never woken
SelRetry_Asleep(t) == FALSE /\ UNCHANGED vars

\* wait(), and wait_for(d) before d has elapsed: no case fired, another pass
SelRetry(t) ==
  /\ pc[t] = "sel_scan"
  /\ sel_i[t] > Len(Op(t).cases)
  /\ Op(t).mode \in {"wait", "wait_for"}
  /\ sel_i' = [sel_i EXCEPT ![t] = 1]
  /\ UNCHANGED <<handleVars, cap, chanVars, m_mutex, cvVars, prog, ip, pc, cur, got,
                 logVars, fired, called, assertVars>>

SelReturn(t) ==
  /\ ip' = [ip EXCEPT ![t] = @ + 1]
  /\ pc' = [pc EXCEPT ![t] = "idle"]
  /\ cur' = [cur EXCEPT ![t] = NoOp]
  /\ sel_i' = [sel_i EXCEPT ![t] = 1]

\* mutant: a descriptor that gives up runs the callback of its last case
SelGiveUp_CallsBack(t) ==
  /\ pc[t] = "sel_scan"
  /\ sel_i[t] > Len(Op(t).cases)
  /\ Op(t).mode \in {"try_once", "wait_for"}
  /\ called' = [called EXCEPT ![t] =
                  Append(@, [op |-> ip[t], case |-> Len(Op(t).cases)])]
  /\ SelReturn(t)
  /\ UNCHANGED <<handleVars, cap, chanVars, m_mutex, cvVars, prog, got, logVars, fired,
                 assertVars>>

\* try_once(), and wait_for(d) once d has elapsed: no case fired, return
SelGiveUp(t) ==
  /\ pc[t] = "sel_scan"
  /\ sel_i[t] > Len(Op(t).cases)
  /\ Op(t).mode \in {"try_once", "wait_for"}
  /\ SelReturn(t)
  /\ UNCHANGED <<handleVars, cap, chanVars, m_mutex, cvVars, prog, got, logVars, fired,
                 called, assertVars>>

\* mutant: after the callback the scan goes on with the next case
SelCallback_ScanOn(t) ==
  /\ pc[t] = "sel_callback"
  /\ called' = [called EXCEPT ![t] =
                  Append(@, [op |-> ip[t], case |-> sel_i[t]])]
  /\ pc' = [pc EXCEPT ![t] = "sel_scan"]
  /\ sel_i' = [sel_i EXCEPT ![t] = @ + 1]
  /\ cur' = [cur EXCEPT ![t] = NoOp]
  /\ UNCHANGED <<handleVars, cap, chanVars, m_mutex, cvVars, prog, ip, got, logVars, fired,
                 assertVars>>

\* the fired case's channel operation is done: its callback runs, and the
\* completion method returns
SelCallback(t) ==
  /\ pc[t] = "sel_callback"
  /\ called' = [called EXCEPT ![t] =
                  Append(@, [op |-> ip[t], case |-> sel_i[t]])]
  /\ SelReturn(t)
  /\ UNCHANGED <<handleVars, cap, chanVars, m_mutex, cvVars, prog, got, logVars, fired,
                 assertVars>>

Select(t) ==
  \/ SelBegin(t) \/ SelQuery(t) \/ SelClaim(t) \/ SelRetry(t) \/ SelGiveUp(t)
  \/ SelCallback(t)

SelStep(t) == Step(t) \/ Select(t)

\* ---- one channel; CoreThreads threads, each any MaxOps sends and receives ----
ProgramOf(t, q) ==
  [i \in 1..Len(q) |->
     IF q[i] = "send" THEN SendOp(1, ValueOf(t, i)) ELSE RecvOp(1)]

Init ==
  /\ cap \in [Chans -> 0..MaxCap]
  /\ \A c \in Chans : c # 1 => cap[c] = 0
  /\ ChannelInit
  /\ ThreadInit
  /\ \E q \in [1..CoreThreads -> [1..MaxOps -> {"send", "recv"}]] :
       prog = [t \in Threads |->
                 IF t <= CoreThreads THEN ProgramOf(t, q[t]) ELSE <<>>]

Next == \E t \in Threads : Step(t) \/ SpuriousWakeup(t)

Spec == Init /\ [][Next]_vars

\* ---- one channel; every thread performs one send or one receive ----
InitOne ==
  /\ cap \in [Chans -> 0..MaxCap]
  /\ \A c \in Chans : c # 1 => cap[c] = 0
  /\ ChannelInit
  /\ ThreadInit
  /\ \E q \in [Threads -> {"send", "recv"}] :
       prog = [t \in Threads |-> ProgramOf(t, <<q[t]>>)]

\* Fair scheduling: a thread that can take a step again and again (it is
\* runnable, and the mutex it wants is free again and again) takes one. A
\* spurious wake-up is never owed.
FairSpec == InitOne /\ [][Next]_vars /\ \A t \in Threads : SF_vars(Step(t))

\* ---- two channels; descriptors of two cases, and plain operations ----
\* the value case k of the descriptor that is operation i of thread t sends
CaseValueOf(t, i, k) == 100 * k + ValueOf(t, i)

SelCase(t, i, k, dir, c) ==
  [dir |-> dir, ch |-> c, val |-> IF dir = "send" THEN CaseValueOf(t, i, k) ELSE 0]

PlainOp(t, i, dir, c) == IF dir = "send" THEN SendOp(c, ValueOf(t, i)) ELSE RecvOp(c)

Dirs == {"send", "recv"}

\* thread 1: one descriptor, a case on channel 1 then a case on channel 2;
\* thread 2: a descriptor of one case or, if plain allows it, one plain
\* operation; the other threads up to CoreThreads: one plain operation each
SelPrograms(modes1, modes2, plain) ==
  {[t \in Threads |->
      IF t = 1
        THEN <<SelectOp(m1, <<SelCase(1, 1, 1, a[1], 1), SelCase(1, 1, 2, a[2], 2)>>)>>
      ELSE IF t = 2 /\ ~b
        THEN <<SelectOp(m2, <<SelCase(2, 1, 1, d[t][1], d[t][2])>>)>>
      ELSE IF t <= CoreThreads
        THEN <<PlainOp(t, 1, d[t][1], d[t][2])>>
      ELSE <<>>] :
     m1 \in modes1, m2 \in modes2, a \in Dirs \X Dirs, b \in plain,
     d \in [2..CoreThreads -> Dirs \X {1, 2}]}

SelCaps == {k \in [Chans -> 0..MaxCap] :
              /\ \A c \in Chans : c > 2 => k[c] = 0
              /\ k[1] <= 1 /\ k[2] <= 1}

SelInit ==
  /\ cap \in SelCaps
  /\ ChannelInit
  /\ ThreadInit
  /\ prog \in SelPrograms({"wait", "wait_for", "try_once"}, {"wait"}, BOOLEAN)

SelNext == \E t \in Threads : SelStep(t) \/ SpuriousWakeup(t)

SelSpec == SelInit /\ [][SelNext]_vars

\* capacity-0 channels; the descriptors wait
FairSelInit ==
  /\ cap = [c \in Chans |-> 0]
  /\ ChannelInit
  /\ ThreadInit
  /\ prog \in SelPrograms({"wait"}, {"wait", "wait_for"}, {FALSE})

\* Fair scheduling, as in FairSpec, of the channel operations and of the passes
\* of a waiting descriptor.
FairSelSpec ==
  FairSelInit /\ [][SelNext]_vars /\ \A t \in Threads : SF_vars(SelStep(t))

\* ---- observations used by the properties ----
Range(f) == {f[i] : i \in DOMAIN f}

SendCalls == {x \in Threads \X (1..MaxOps) :
                x[2] <= Len(prog[x[1]]) /\ prog[x[1]][x[2]].kind = "send"}

RecvCalls == {x \in Threads \X (1..MaxOps) :
                x[2] <= Len(prog[x[1]]) /\ prog[x[1]][x[2]].kind = "recv"}

\* the call has returned to its caller
Returned(x) == x[2] < ip[x[1]]

ElemOf(x) == [sender |-> x[1], val |-> prog[x[1]][x[2]].val]

ChanOf(x) == prog[x[1]][x[2]].ch

\* the threads that popped element e from channel c
TakersOf(c, e) ==
  {taker[c][k].thread : k \in {j \in DOMAIN dequeued[c] : dequeued[c][j] = e}}

\* thread t is between its deposit and the end of its acknowledgement step
InPhaseB(t, c) ==
  /\ cur[t].kind = "send" /\ cur[t].ch = c
  /\ pc[t] \in {"send_notify_recv", "send_end_lock", "send_end_wait",
                "send_end_blocked", "send_ack"}

\* thread t is past the wait of phase B of the call it is in
PastAck(t) == pc[t] \in {"send_ack", "send_notify_begin"}

IsPrefix(s, r) == Len(s) <= Len(r) /\ \A i \in 1..Len(s) : s[i] = r[i]

AllDone == \A t \in Threads : ip[t] > Len(prog[t])

\* C1: on a capacity-0 channel a send call returns (or is past the wait of its
\* acknowledgement step) only after another thread has popped that call's own
\* element from the buffer.
C1_SendReturnsAfterTake ==
  \A x \in SendCalls :
    (cap[ChanOf(x)] = 0 /\ (Returned(x) \/ (x[2] = ip[x[1]] /\ PastAck(x[1]))))
      => \E r \in TakersOf(ChanOf(x), ElemOf(x)) : r # x[1]

C1_Witness ==
  \E x \in SendCalls : cap[ChanOf(x)] = 0 /\ Returned(x)

\* C2: on every channel the elements are popped in exactly the order in which
\* they were deposited, and the values one thread sent arrive at any one
\* receiving thread in the order they were sent.
C2_Fifo ==
  /\ \A c \in Chans : IsPrefix(dequeued[c], deposited[c])
  /\ \A r \in Threads : \A i, j \in DOMAIN got[r] :
       (i < j /\ got[r][i] \div 10 = got[r][j] \div 10) => got[r][i] < got[r][j]

C2_Witness ==
  \E c \in Chans : \E r \in Threads :
    /\ Len(dequeued[c]) >= 2 /\ cap[c] >= 1
    /\ Len(got[r]) = 2 /\ got[r][1] \div 10 = got[r][2] \div 10

\* C3: a capacity-N buffer never holds more than N+1 elements, holds more than N
\* only while some sender is between its deposit and the end of its
\* acknowledgement step, and holds at most N right after every pop (the
\* assert(!is_full()) after pop_front never fails).
C3_BufferBound ==
  /\ \A c \in Chans :
       /\ Len(m_buffer[c]) <= cap[c] + 1
       /\ Len(m_buffer[c]) > cap[c] => \E t \in Threads : InPhaseB(t, c)
  /\ assert_full

C3_Witness ==
  \E c \in Chans :
    /\ Len(m_buffer[c]) = cap[c] + 1 /\ cap[c] >= 1
    /\ dequeued[c] # <<>>

\* C5: the assertion `!is_full() || this_thread_id != front.sender` before
\* pop_front never fails, whatever the capacity and the programs.
C5_SelfSendAssertHolds == assert_self

\* C6: on a capacity-N channel, N > 0, with nothing received yet: (a) no thread
\* has had more than N sends return; (b) a thread sending alone is never blocked
\* in one of its first N sends.
C6_BurstThenBlock ==
  \A t \in Threads :
    (cap[1] > 0 /\ dequeued[1] = <<>>) =>
      /\ Cardinality({x \in SendCalls : x[1] = t /\ Returned(x)}) <= cap[1]
      /\ ( /\ \A u \in Threads \ {t} : pc[u] = "idle" /\ ip[u] = 1
           /\ ip[t] <= cap[1]
           /\ \A i \in 1..Len(prog[t]) : i <= ip[t] => prog[t][i].kind = "send" )
         => /\ pc[t] \notin {"send_begin_blocked", "send_end_blocked"}
            /\ m_mutex[1] \in {NoThread, t}

\* the (N+1)-th send of a lone sender is blocked in its acknowledgement step
C6_Witness ==
  \E t \in Threads :
    /\ cap[1] > 0 /\ dequeued[1] = <<>>
    /\ ip[t] = cap[1] + 1 /\ pc[t] = "send_end_blocked"
    /\ Cardinality({x \in SendCalls : x[1] = t /\ Returned(x)}) = cap[1]

\* C7 as claimed: on a capacity-0 channel, when a send(v) call has returned,
\* some recv call has already returned v to its caller.
C7_RecvReturnedBeforeSendReturns ==
  \A x \in SendCalls :
    (cap[ChanOf(x)] = 0 /\ Returned(x))
      => \E r \in Threads : ElemOf(x).val \in Range(got[r])

\* C7 as amended: on a capacity-0 channel, when a send(v) call has returned,
\* some recv call of another thread has popped v and released the mutex; that
\* call is at its notification, or has returned v.
C7_RecvUnlockedBeforeSendReturns ==
  \A x \in SendCalls :
    (cap[ChanOf(x)] = 0 /\ Returned(x))
      => \E r \in Threads \ {x[1]} :
           \/ ElemOf(x).val \in Range(got[r])
           \/ /\ pc[r] = "recv_notify" /\ cur[r].ch = ChanOf(x)
              /\ cur[r].val = ElemOf(x).val

\* the send has returned while the recv that took its element has not
C7_Witness ==
  \E x \in SendCalls :
    /\ cap[ChanOf(x)] = 0 /\ Returned(x)
    /\ \E r \in Threads : pc[r] = "recv_notify" /\ cur[r].val = ElemOf(x).val

\* ---- progress, under FairSpec (every thread performs one operation) ----
NumSenders == Cardinality({t \in Threads : prog[t][1].kind = "send"})

NumReceivers == Cardinality({t \in Threads : prog[t][1].kind = "recv"})

AllOf(kind) == \A t \in Threads : prog[t][1].kind = kind => ip[t] > 1

\* thread t sleeps in a condition variable whose wait predicate is true
AsleepThoughReady(t) ==
  LET c == cur[t].ch IN
  \/ pc[t] = "send_begin_blocked" /\ t \in m_send_begin_cv[c] /\ SendBeginPred(c)
  \/ pc[t] = "send_end_blocked" /\ t \in m_send_end_cv[c] /\ SendEndPred(c)
  \/ pc[t] = "recv_blocked" /\ t \in m_recv_cv[c] /\ NonEmpty(c)

\* C4: with k one-send threads and m one-recv threads on a capacity-N channel,
\* under fair scheduling every recv returns when k >= m, every send returns when
\* k <= m + N, and no thread sleeps forever while its wait predicate is true.
C4_Progress ==
  /\ (NumSenders >= NumReceivers) => <>AllOf("recv")
  /\ (NumSenders <= NumReceivers + cap[1]) => <>AllOf("send")
  /\ \A t \in Threads : []<>(~AsleepThoughReady(t))

\* two senders and two receivers on a capacity-0 channel have all returned
C4_Witness ==
  /\ cap[1] = 0 /\ NumSenders = 2 /\ NumReceivers = 2
  /\ AllOf("send") /\ AllOf("recv")

\* ---- select ----
SelectCalls == {x \in Threads \X (1..MaxOps) :
                  x[2] <= Len(prog[x[1]]) /\ prog[x[1]][x[2]].kind = "select"}

CountOp(log, i) == Cardinality({k \in DOMAIN log : log[k].op = i})

\* the values the cases of descriptor x may send
CaseValues(x) == {prog[x[1]][x[2]].cases[k].val :
                    k \in {j \in DOMAIN prog[x[1]][x[2]].cases :
                             prog[x[1]][x[2]].cases[j].dir = "send"}}

\* the channel operations descriptor x has performed: its pushes and its pops
ChannelOps(x) ==
  LET pushes(c) == {k \in DOMAIN deposited[c] :
                      /\ deposited[c][k].sender = x[1]
                      /\ deposited[c][k].val \in CaseValues(x)}
      pops(c) == {k \in DOMAIN taker[c] :
                    taker[c][k] = [thread |-> x[1], op |-> x[2]]}
  IN  [c \in Chans |-> Cardinality(pushes(c)) + Cardinality(pops(c))]

RECURSIVE Sum(_, _)
Sum(f, S) == IF S = {} THEN 0
             ELSE LET c == CHOOSE d \in S : TRUE IN f[c] + Sum(f, S \ {c})

\* C8: one execution of a descriptor fires at most one case, performs at most
\* one channel operation and runs at most one callback, that of the fired case;
\* and a wait() that has returned on a non-empty case set fired exactly one.
C8_AtMostOneFires ==
  \A x \in SelectCalls :
    LET t == x[1]
        op == prog[t][x[2]]
    IN  /\ CountOp(fired[t], x[2]) <= 1
        /\ CountOp(called[t], x[2]) <= 1
        /\ Sum(ChannelOps(x), Chans) <= 1
        /\ \A k \in DOMAIN called[t] : called[t][k] \in Range(fired[t])
        /\ (Returned(x) /\ op.mode = "wait" /\ op.cases # <<>>)
             => /\ CountOp(fired[t], x[2]) = 1
                /\ CountOp(called[t], x[2]) = 1
                /\ Sum(ChannelOps(x), Chans) = 1

\* a wait() has returned having fired its first case while its second case, a
\* receive, is ready too
C8_Witness ==
  \E x \in SelectCalls :
    LET op == prog[x[1]][x[2]] IN
    /\ Returned(x) /\ op.mode = "wait" /\ Len(op.cases) = 2
    /\ fired[x[1]] = <<[op |-> x[2], case |-> 1]>>
    /\ op.cases[2].dir = "recv" /\ NonEmpty(op.cases[2].ch)

\* the channels of the cases the descriptor thread t is executing has fired,
\* after the step
FiredChansNext(t) ==
  {Op(t).cases[fired'[t][k].case].ch :
     k \in {j \in DOMAIN fired'[t] : fired'[t][j].op = ip[t]}}

\* the step is one of thread t
ActsIn(t) == pc'[t] # pc[t] \/ sel_i'[t] # sel_i[t] \/ ip'[t] # ip[t]

\* C9: a step of a thread executing a descriptor changes the buffer or the
\* send-in-progress flag of no channel but that of the case that fired; a case
\* that does not fire neither removes nor deposits an element.
C9_NonFiredCasesUntouched ==
  [][\A t \in Threads :
       (Op(t).kind = "select" /\ ActsIn(t)) =>
         \A c \in Chans :
           (m_buffer'[c] # m_buffer[c] \/ m_is_send_done'[c] # m_is_send_done[c])
             => c \in FiredChansNext(t)]_vars

\* a descriptor has returned having fired its second case, after another thread
\* took the elements of the channel of its first case, a receive
C9_Witness ==
  \E x \in SelectCalls :
    LET op == prog[x[1]][x[2]] IN
    /\ Returned(x) /\ Len(op.cases) = 2
    /\ fired[x[1]] = <<[op |-> x[2], case |-> 2]>>
    /\ op.cases[1].dir = "recv"
    /\ dequeued[op.cases[1].ch] # <<>>
    /\ m_buffer[op.cases[1].ch] = <<>>

\* thread t is in wait(), and no case has fired yet
SelWaiting(t) ==
  /\ Op(t).kind = "select" /\ Op(t).mode = "wait"
  /\ pc[t] \in {"sel_scan", "sel_claim"}

\* some case of the descriptor thread t is executing is ready
AnyCaseReady(t) ==
  \E k \in DOMAIN Op(t).cases :
    LET case == Op(t).cases[k] IN
    IF case.dir = "recv" THEN m_buffer[case.ch] # <<>>
    ELSE Len(m_buffer[case.ch]) <= cap[case.ch] /\ m_is_send_done[case.ch]

\* a receive case of thread t's descriptor has fired
SelRecvFired(t) ==
  /\ Op(t).kind = "select"
  /\ pc[t] \in {"recv_take", "recv_unlock", "recv_notify", "sel_callback"}
  /\ cur[t].kind = "recv"

Blocked(t) == pc[t] \in {"send_begin_blocked", "send_end_blocked", "recv_blocked"}

\* C11: try_once() never blocks: a thread executing try_once() never waits in a
\* condition variable for another thread's send or receive, whatever the
\* cases, the capacities and the state of the channels.
C11_TryOnceNeverBlocks ==
  \A t \in Threads :
    (Op(t).kind = "select" /\ Op(t).mode = "try_once") => ~Blocked(t)

\* thread t's descriptor returns in this step without having fired a case
GivesUp(t) == Op(t).kind = "select" /\ pc[t] = "sel_scan" /\ ip'[t] # ip[t]

\* C12: a step of a descriptor none of whose cases is ready fires nothing, runs
\* no callback and changes no buffer and no send-in-progress flag; and when
\* try_once() or wait_for(d) returns without a fired case, no callback ran and
\* the descriptor did no channel operation.
C12_NoFireNoEffect ==
  [][\A t \in Threads :
       /\ ( /\ Op(t).kind = "select" /\ ActsIn(t)
            /\ pc[t] \in {"idle", "sel_scan", "sel_claim"}
            /\ ~AnyCaseReady(t) )
          => /\ fired'[t] = fired[t] /\ called'[t] = called[t]
             /\ m_buffer' = m_buffer /\ m_is_send_done' = m_is_send_done
       /\ GivesUp(t)
          => /\ Op(t).mode \in {"try_once", "wait_for"}
             /\ CountOp(fired'[t], ip[t]) = 0
             /\ CountOp(called'[t], ip[t]) = 0
             /\ Sum(ChannelOps(<<t, ip[t]>>), Chans) = 0
             /\ m_buffer' = m_buffer /\ m_is_send_done' = m_is_send_done]_vars

\* a try_once() has returned without firing: its first case is a send on a
\* channel whose buffer another thread filled, its second a receive on an
\* empty channel
C12_Witness ==
  \E x \in SelectCalls :
    LET op == prog[x[1]][x[2]] IN
    /\ Returned(x) /\ op.mode = "try_once" /\ fired[x[1]] = <<>>
    /\ op.cases[1].dir = "send" /\ is_full(op.cases[1].ch)
    /\ op.cases[2].dir = "recv" /\ m_buffer[op.cases[2].ch] = <<>>
    /\ deposited[op.cases[2].ch] = <<>>

\* ---- programs of the tests and examples: their own threads and channels ----
ChannelInitOn(C) ==
  /\ m_buffer = [c \in C |-> <<>>]
  /\ m_is_send_done = [c \in C |-> TRUE]
  /\ m_mutex = [c \in C |-> NoThread]
  /\ m_send_begin_cv = [c \in C |-> {}]
  /\ m_send_end_cv = [c \in C |-> {}]
  /\ m_recv_cv = [c \in C |-> {}]

ThreadInitOn(T, C) ==
  /\ ip = [t \in T |-> 1]
  /\ pc = [t \in T |-> "idle"]
  /\ cur = [t \in T |-> NoOp]
  /\ got = [t \in T |-> <<>>]
  /\ deposited = [c \in C |-> <<>>]
  /\ dequeued = [c \in C |-> <<>>]
  /\ taker = [c \in C |-> <<>>]
  /\ sel_i = [t \in T |-> 1]
  /\ fired = [t \in T |-> <<>>]
  /\ called = [t \in T |-> <<>>]
  /\ assert_self = TRUE
  /\ assert_full = TRUE
  /\ handle = <<>> /\ made = <<>> /\ nmade = 0

\* every thread has returned from its thread function
Terminated == \A t \in DOMAIN prog : ip[t] > Len(prog[t])

\* ---- ping-pong (README example; ChannelTest.SenderReceiver) ----
\* up to MaxRounds exchanges
MaxRounds == 2

ThreadA == 1

ThreadB == 2

RECURSIVE Repeat(_, _)
Repeat(q, n) == IF n = 0 THEN <<>> ELSE q \o Repeat(q, n - 1)

\* mutant: thread_b sends before it receives
thread_b_SendsFirst(n) == ProgramOf(ThreadB, Repeat(<<"send", "recv">>, n))

\* c.send('A'); r = c.recv();
thread_a(n) == ProgramOf(ThreadA, Repeat(<<"send", "recv">>, n))

\* r = c.recv(); c.send('B');
thread_b(n) == ProgramOf(ThreadB, Repeat(<<"recv", "send">>, n))

PingPongInit ==
  /\ cap = [c \in {1} |-> 0]
  /\ ChannelInitOn({1})
  /\ ThreadInitOn({ThreadA, ThreadB}, {1})
  /\ \E n \in 1..MaxRounds :
       prog = [t \in {ThreadA, ThreadB} |-> IF t = ThreadA THEN thread_a(n) ELSE thread_b(n)]

PingPongNext == \E t \in {ThreadA, ThreadB} : Step(t) \/ SpuriousWakeup(t)

PingPongSpec ==
  PingPongInit /\ [][PingPongNext]_vars
    /\ \A t \in {ThreadA, ThreadB} : SF_vars(Step(t))

\* the values a thread sent, in order
SentBy(t) ==
  LET idx == {i \in DOMAIN prog[t] : prog[t][i].kind = "send"} IN
  {prog[t][i].val : i \in idx}

\* C13: ping-pong on a capacity-0 channel: both threads terminate, thread A
\* receives what thread B sent and thread B what thread A sent, and neither
\* ever receives a value it sent itself.
C13_PingPong ==
  /\ <>Terminated
  /\ [](\A t \in {ThreadA, ThreadB} : Range(got[t]) \cap SentBy(t) = {})
  /\ [](Terminated =>
          /\ Range(got[ThreadA]) = SentBy(ThreadB)
          /\ Range(got[ThreadB]) = SentBy(ThreadA))

\* both threads are done after thread B had to wait for thread A's
\* acknowledgement before it could deposit
C13_Witness ==
  /\ Terminated
  /\ got[ThreadA] # <<>> /\ got[ThreadB] # <<>>

\* ---- dining philosophers (ChannelTest.DiningPhilosophersDeadlockFree) ----
\* philosophers and forks at the table (5 in the test)
PhilN == 2

\* dining_table<N>: the channels picksup[i] and putsdown[i], i in 0..N-1
picksup(i) == i + 1

putsdown(i) == PhilN + i + 1

TableChans == 1..(2 * PhilN)

\* the threads forks[i] and phils[i]
ForkThread(i) == i + 1

PhilThread(i) == PhilN + i + 1

TableThreads == 1..(2 * PhilN)

phil_fork(i) ==
  <<RecvOp(picksup(i)), RecvOp(putsdown(i)), RecvOp(picksup(i)), RecvOp(putsdown(i))>>

\* picks up the left and then the right fork; finally puts down both
phil_person(i) ==
  <<SendOp(picksup(i), i), SendOp(picksup((i + 1) % PhilN), i),
    SendOp(putsdown(i), i), SendOp(putsdown((i + 1) % PhilN), i)>>

\* mutant: philosopher 0 picks up its forks in the order of the others
phil_different_person_Same(i) == phil_person(i)

\* picks up the right and then the left fork; finally puts down both
phil_different_person(i) ==
  <<SendOp(picksup((i + 1) % PhilN), i), SendOp(picksup(i), i),
    SendOp(putsdown(i), i), SendOp(putsdown((i + 1) % PhilN), i)>>

DiningInit ==
  /\ cap = [c \in TableChans |-> 0]
  /\ ChannelInitOn(TableChans)
  /\ ThreadInitOn(TableThreads, TableChans)
  /\ prog = [t \in TableThreads |->
               IF t <= PhilN THEN phil_fork(t - 1)
               ELSE IF t = PhilThread(0) THEN phil_different_person(0)
               ELSE phil_person(t - PhilN - 1)]

DiningNext == \E t \in TableThreads : Step(t) \/ SpuriousWakeup(t)

DiningSpec ==
  DiningInit /\ [][DiningNext]_vars /\ \A t \in TableThreads : SF_vars(Step(t))

\* thread t sleeps in a condition variable and has not been notified
Asleep(t) ==
  LET c == cur[t].ch IN
  /\ Blocked(t)
  /\ t \in (m_send_begin_cv[c] \cup m_send_end_cv[c] \cup m_recv_cv[c])

\* some thread has not returned, and every thread that has not is asleep
Deadlocked ==
  /\ ~Terminated
  /\ \A t \in DOMAIN prog : ip[t] > Len(prog[t]) \/ Asleep(t)

\* C14: asymmetric dining philosophers over capacity-0 channels: under fair
\* scheduling all fork and philosopher threads terminate, and no deadlock
\* state (every unfinished thread asleep) is reachable.
C14_DiningTerminates == <>Terminated /\ []~Deadlocked

\* all threads are done, and fork 0 was picked up by philosopher 0 last
C14_Witness ==
  /\ Terminated
  /\ Len(got[ForkThread(0)]) = 4
  /\ got[ForkThread(0)][3] = 0

\* ---- select deque (ChannelTest.SelectDeque) ----
\* the channels c1, c2, c3 and the threads t1, t2, t3 and the test's own
DequeChans == 1..3

DequeThreads == 1..4

select_deque_1 == <<RecvOp(1)>>

\* the descriptor's c2 callback, c3.send(true), is the operation that follows
\* the descriptor; its c1 callback throws
select_deque_2 ==
  <<SelectOp("wait", <<SelCase(2, 1, 1, "recv", 1), SelCase(2, 1, 2, "recv", 2)>>),
    SendOp(3, 1), RecvOp(1)>>

select_deque_3 == <<SendOp(2, 1)>>

\* mutant: the test sends on c1 before it has received from c3
select_deque_main_SendsFirst == <<SendOp(1, 1), RecvOp(3), SendOp(1, 1)>>

\* c3.recv(); c1.send(true); c1.send(true);
select_deque_main == <<RecvOp(3), SendOp(1, 1), SendOp(1, 1)>>

DequeInit ==
  /\ cap = [c \in DequeChans |-> 0]
  /\ ChannelInitOn(DequeChans)
  /\ ThreadInitOn(DequeThreads, DequeChans)
  /\ prog = <<select_deque_1, select_deque_2, select_deque_3, select_deque_main>>

\* The steps of a thread of this program: no channel has two senders, so no
\* send waits at send-begin, and the descriptor waits, so it never gives up.
DequeStep(t) ==
  \/ SendLock(t) \/ SendBeginWait(t) \/ SendDeposit(t) \/ SendNotifyRecv(t)
  \/ SendEndLock(t) \/ SendEndWait(t) \/ SendEndWake(t) \/ SendAck(t)
  \/ SendNotifyBegin(t) \/ Recv(t)
  \/ SelBegin(t) \/ SelQuery(t) \/ SelClaim(t) \/ SelRetry(t) \/ SelCallback(t)

DequeNext == \E t \in DequeThreads : DequeStep(t) \/ SpuriousWakeup(t)

DequeSpec ==
  DequeInit /\ [][DequeNext]_vars /\ \A t \in DequeThreads : SF_vars(DequeStep(t))

\* C15: select deque scenario on capacity-0 channels: under fair scheduling all
\* threads terminate, and the c1 case of t2's descriptor never fires.
C15_SelectDeque ==
  /\ <>Terminated
  /\ [](\A k \in DOMAIN fired[2] : fired[2][k].case # 1)

\* all threads are done; t2's descriptor fired its c2 case, and t2 received
\* the first of the two elements sent on c1
C15_Witness ==
  /\ Terminated
  /\ fired[2] = <<[op |-> 1, case |-> 2]>>
  /\ taker[1][1].thread = 2

\* ---- channel handles: channel<T, N>, ichannel<T, N>, ochannel<T, N> ----
\* handle variables a program declares
MaxHandles == 3

\* addresses at which std::make_shared can place a channel object
MaxAddr == 2

HandleAddrs == 1..MaxAddr

\* the cpp::channel<cpp::channel<bool>> of the higher-order tests
ChanOfChans == MaxAddr + 1

HandleChans == 1..(MaxAddr + 1)

HandleThreads == 1..2

\* std::shared_ptr::use_count of the object at address a
use_count(a) == Cardinality({k \in DOMAIN handle : handle[k].m_channel_ptr = a})

\* std::make_shared<internal::_channel<T, N>>(): any address no live object has
make_shared == {a \in HandleAddrs : use_count(a) = 0}

\* channel(const channel&), ichannel(const channel&), ichannel(const ichannel&),
\* ochannel(const channel&), ochannel(const ochannel&)
Convertible(from, to) == to = from \/ from = "channel"

\* mutant: copying a handle copies the queue
CopyOf_NewQueue(kind, other) ==
  [kind |-> kind,
   m_channel_ptr |-> CHOOSE a \in HandleAddrs : a # other.m_channel_ptr]

\* the converting and copy constructors: m_channel_ptr(other.m_channel_ptr)
CopyOf(kind, other) == [kind |-> kind, m_channel_ptr |-> other.m_channel_ptr]

\* a == b compiles: channel has operator== for all three kinds; ichannel and
\* ochannel have it for their own kind, which a channel converts to
Comparable(a, b) == a.kind = "channel" \/ Convertible(b.kind, a.kind)

\* mutant: channel::operator==(const ichannel&) is a copy of operator!=
operator_eq_Pasted(a, b) ==
  IF a.kind = "channel" /\ b.kind = "ichannel"
    THEN a.m_channel_ptr # b.m_channel_ptr
    ELSE a.m_channel_ptr = b.m_channel_ptr

\* operator==: m_channel_ptr == other.m_channel_ptr
operator_eq(a, b) ==
  IF a.kind = "channel"
    THEN a.m_channel_ptr = b.m_channel_ptr
    ELSE a.m_channel_ptr = CopyOf(a.kind, b).m_channel_ptr

\* operator!=: m_channel_ptr != other.m_channel_ptr
operator_ne(a, b) ==
  IF a.kind = "channel"
    THEN a.m_channel_ptr # b.m_channel_ptr
    ELSE a.m_channel_ptr # CopyOf(a.kind, b).m_channel_ptr

\* the threads have not been started yet
Unstarted == \A t \in DOMAIN prog : prog[t] = <<>>

HandleFrame ==
  UNCHANGED <<selVars, cap, chanVars, m_mutex, cvVars, prog, ip, pc, cur, got,
              logVars, assertVars>>

\* cpp::channel<T> c;
channel_ctor ==
  /\ Unstarted
  /\ Len(handle) < MaxHandles
  /\ \E a \in make_shared :
       handle' = Append(handle, [kind |-> "channel", m_channel_ptr |-> a])
  /\ made' = Append(made, nmade + 1)
  /\ nmade' = nmade + 1
  /\ HandleFrame

\* cpp::channel<T> d(c); cpp::ichannel<T> d(c); cpp::ochannel<T> e(c);
copy_ctor(j, kind) ==
  /\ Unstarted
  /\ Len(handle) < MaxHandles
  /\ Convertible(handle[j].kind, kind)
  /\ handle' = Append(handle, CopyOf(kind, handle[j]))
  /\ made' = Append(made, made[j])
  /\ nmade' = nmade
  /\ HandleFrame

\* d = c;
operator_assign(k, j) ==
  /\ Unstarted
  /\ Convertible(handle[j].kind, handle[k].kind)
  /\ handle' = [handle EXCEPT ![k] = CopyOf(handle[k].kind, handle[j])]
  /\ made' = [made EXCEPT ![k] = made[j]]
  /\ nmade' = nmade
  /\ HandleFrame

\* the handle the sending side uses, and the handle the receiving side uses:
\* the last two handles declared
SendHandle == Len(handle) - 1

RecvHandle == Len(handle)

\* ChannelTest.Channel / DirectedChannel: std::thread f(out, c); std::thread
\* g(in, c): out sends 7 through its handle, in receives through its own
StartDirected ==
  /\ Unstarted
  /\ Len(handle) >= 2
  /\ handle[SendHandle].kind \in {"channel", "ochannel"}
  /\ handle[RecvHandle].kind \in {"channel", "ichannel"}
  /\ prog' = [t \in HandleThreads |->
                IF t = 1 THEN <<SendOp(handle[SendHandle].m_channel_ptr, 7)>>
                         ELSE <<RecvOp(handle[RecvHandle].m_channel_ptr)>>]
  /\ UNCHANGED <<handleVars, selVars, cap, chanVars, m_mutex, cvVars, ip, pc,
                 cur, got, logVars, assertVars>>

\* ChannelTest.HigherOrderChannel: c.send(done); done.recv(); while the other
\* thread runs higher_order(c)
StartHigherOrder ==
  /\ Unstarted
  /\ Len(handle) >= 2
  /\ handle[SendHandle].kind = "channel"
  /\ handle[RecvHandle].kind \in {"channel", "ichannel"}
  /\ prog' = [t \in HandleThreads |->
                IF t = 1 THEN <<SendOp(ChanOfChans, handle[SendHandle]),
                                RecvOp(handle[RecvHandle].m_channel_ptr)>>
                         ELSE <<RecvOp(ChanOfChans)>>]
  /\ UNCHANGED <<handleVars, selVars, cap, chanVars, m_mutex, cvVars, ip, pc,
                 cur, got, logVars, assertVars>>

\* higher_order / higher_order_with_cast: cpp::channel<bool> done(c.recv()) or
\* cpp::ochannel<bool> done(c.recv()); then done.send(true)
higher_order(kind) ==
  /\ prog[2] = <<RecvOp(ChanOfChans)>>
  /\ ip[2] = 2
  /\ prog' = [prog EXCEPT ![2] =
                Append(@, SendOp(CopyOf(kind, got[2][1]).m_channel_ptr, 1))]
  /\ UNCHANGED <<handleVars, selVars, cap, chanVars, m_mutex, cvVars, ip, pc,
                 cur, got, logVars, assertVars>>

\* The steps of a thread of these programs: no channel has two senders, so no
\* send waits at send-begin.
HandleStep(t) ==
  \/ SendLock(t) \/ SendBeginWait(t) \/ SendDeposit(t) \/ SendNotifyRecv(t)
  \/ SendEndLock(t) \/ SendEndWait(t) \/ SendEndWake(t) \/ SendAck(t)
  \/ SendNotifyBegin(t) \/ Recv(t)

HandleInit ==
  /\ cap = [c \in HandleChans |-> 0]
  /\ ChannelInitOn(HandleChans)
  /\ ThreadInitOn(HandleThreads, HandleChans)
  /\ prog = [t \in HandleThreads |-> <<>>]

HandleNext ==
  \/ channel_ctor
  \/ \E j \in DOMAIN handle : \E kind \in {"channel", "ichannel", "ochannel"} :
       copy_ctor(j, kind)
  \/ \E k, j \in DOMAIN handle : operator_assign(k, j)
  \/ StartDirected
  \/ StartHigherOrder
  \/ \E kind \in {"channel", "ochannel"} : higher_order(kind)
  \/ \E t \in HandleThreads : HandleStep(t) \/ SpuriousWakeup(t)

\* Fair scheduling of the started threads; nothing obliges the program to
\* declare another handle or to start the threads.
HandleSpec ==
  HandleInit /\ [][HandleNext]_vars
    /\ \A t \in HandleThreads : SF_vars(HandleStep(t))
    /\ WF_vars(\E kind \in {"channel", "ochannel"} : higher_order(kind))

\* the two handles denote the object of the same constructor call
Aliased(a, b) == made[a] = made[b]

Started == ~Unstarted

HigherOrder == Started /\ prog[1][1].ch = ChanOfChans

\* the value sent through the one handle has been received through the other
RoundTrip ==
  /\ Started
  /\ IF HigherOrder THEN got[1] = <<1>> ELSE got[2] = <<7>>

\* C16: all handles to a channel operate on one shared queue: a copy, an
\* assignment or a narrowing never creates a second buffer, a value sent through
\* one handle (also one that was itself received from a channel) is the value a
\* receive through any handle of the same channel obtains, and no receive
\* through a handle of another channel obtains it.
C16_HandlesShareQueue ==
  /\ [](\A a, b \in DOMAIN handle :
          Aliased(a, b) <=> handle[a].m_channel_ptr = handle[b].m_channel_ptr)
  /\ [](Started =>
          /\ ~Aliased(SendHandle, RecvHandle) =>
               got[IF HigherOrder THEN 1 ELSE 2] = <<>>
          /\ got[IF HigherOrder THEN 1 ELSE 2] \in
               {<<>>, <<IF HigherOrder THEN 1 ELSE 7>>})
  /\ (Started /\ Aliased(SendHandle, RecvHandle)) ~> RoundTrip

\* a value sent through a send-only handle built from a handle received from a
\* channel has arrived through a receive-only handle
C16_Witness ==
  /\ RoundTrip /\ HigherOrder
  /\ Len(prog[2]) = 2
  /\ handle[RecvHandle].kind = "ichannel"
  /\ handle[SendHandle].kind = "channel"

\* C17: handle equality is identity of the underlying channel object: wherever
\* a == b compiles it is true iff a and b denote the object of the same
\* constructor call, a != b is its negation, and equality is symmetric (in
\* either operand order) and transitive across the three handle types.
C17_EqualityIsIdentity ==
  \A a, b \in DOMAIN handle :
    Comparable(handle[a], handle[b]) =>
      /\ operator_eq(handle[a], handle[b]) <=> Aliased(a, b)
      /\ operator_ne(handle[a], handle[b]) <=> ~operator_eq(handle[a], handle[b])
      /\ Comparable(handle[b], handle[a]) =>
           (operator_eq(handle[a], handle[b]) <=> operator_eq(handle[b], handle[a]))
      /\ \A c \in DOMAIN handle :
           ( /\ Comparable(handle[b], handle[c]) /\ Comparable(handle[a], handle[c])
             /\ operator_eq(handle[a], handle[b])
             /\ operator_eq(handle[b], handle[c]) )
           => operator_eq(handle[a], handle[c])

\* a channel and a receive-only handle of it are equal in both operand orders,
\* and a separately constructed channel is unequal to both
C17_Witness ==
  \E a, b, c \in DOMAIN handle :
    /\ handle[a].kind = "channel" /\ handle[b].kind = "ichannel"
    /\ handle[c].kind = "channel"
    /\ operator_eq(handle[a], handle[b]) /\ operator_eq(handle[b], handle[a])
    /\ ~operator_eq(handle[c], handle[b]) /\ ~operator_eq(handle[a], handle[c])

\* ---- prime sieve (ChannelTest.Sieve; the sieve example) ----
\* the sieve's bound N is the MaxPrimeIndex-th prime (97, the 25th, in the test)
MaxPrimeIndex == 3

IsPrime(p) == p > 1 /\ \A d \in 2..(p - 1) : p % d # 0

RECURSIVE NthPrime(_)
NthPrime(n) ==
  IF n = 1 THEN 2
  ELSE LET p == NthPrime(n - 1)
       IN  CHOOSE q \in (p + 1)..(2 * p) :
             IsPrime(q) /\ \A r \in (p + 1)..(q - 1) : ~IsPrime(r)

SieveN == NthPrime(MaxPrimeIndex)

\* std::vector<unsigned> expected
expected == [k \in 1..MaxPrimeIndex |-> NthPrime(k)]

\* threads: the test's, sieve_numbers, generate_numbers, and one filter_numbers
\* for every prime below N
TestThread == 1

SieveThread == 2

GeneratorThread == 3

FilterThread(j) == 3 + j

SieveThreads == 1..(3 + MaxPrimeIndex - 1)

\* channels: primes, the generator's c, and the c_prime of every filter
PrimesChan == 1

SieveChan(j) == 2 + j

SieveChans == 1..(2 + MaxPrimeIndex - 1)

\* for (unsigned i = 2; i <= N; i++) c.send(i);
generate_numbers == [k \in 1..(SieveN - 1) |-> SendOp(SieveChan(0), k + 1)]

\* for (unsigned expect : expected) actual = primes.recv();
sieve_test == [k \in 1..Len(expected) |-> RecvOp(PrimesChan)]

\* the thread is between two operations, at the end of what it has been given to do
AtEnd(t) == pc[t] = "idle" /\ ip[t] = Len(prog[t]) + 1

\* the value the thread's last receive returned
LastGot(t) == got[t][Len(got[t])]

\* mutant: the sieve hands the new filter its own output channel as input
sieve_numbers_spawn_WrongIn(k) == <<RecvOp(SieveChan(k))>>

\* threads.emplace_back(filter_numbers<N>, c, c_prime, prime): the k-th filter
\* starts with in.recv()
sieve_numbers_spawn(k) == <<RecvOp(SieveChan(k - 1))>>

\* sieve_numbers: cpp::channel<unsigned> c; the generator is started; then
\* for (;;) { prime = c.recv(); primes.send(prime); if (prime >= N) break;
\*            start filter_numbers(c, c_prime, prime); c = c_prime; }
sieve_numbers ==
  LET t == SieveThread
      k == Len(got[t])
  IN
  /\ AtEnd(t)
  /\ IF prog[t] = <<>>
       THEN prog' = [prog EXCEPT ![t] = <<RecvOp(SieveChan(0))>>,
                                 ![GeneratorThread] = generate_numbers]
     ELSE IF prog[t][Len(prog[t])].kind = "recv"
       THEN prog' = [prog EXCEPT ![t] = Append(@, SendOp(PrimesChan, LastGot(t)))]
     ELSE /\ LastGot(t) < SieveN
          /\ prog' = [prog EXCEPT ![t] = Append(@, RecvOp(SieveChan(k))),
                                  ![FilterThread(k)] = sieve_numbers_spawn(k)]
  /\ UNCHANGED <<handleVars, selVars, cap, chanVars, m_mutex, cvVars, ip, pc,
                 cur, got, logVars, assertVars>>

\* filter_numbers: do { i = in.recv(); if (i % prime != 0) out.send(i); }
\* while (i < N);
filter_numbers(j) ==
  LET t == FilterThread(j)
      prime == got[SieveThread][j]
      i == LastGot(t)
  IN
  /\ AtEnd(t)
  /\ prog[t] # <<>>
  /\ IF prog[t][Len(prog[t])].kind = "recv" /\ i % prime # 0
       THEN prog' = [prog EXCEPT ![t] = Append(@, SendOp(SieveChan(j), i))]
       ELSE /\ i < SieveN
            /\ prog' = [prog EXCEPT ![t] = Append(@, RecvOp(SieveChan(j - 1)))]
  /\ UNCHANGED <<handleVars, selVars, cap, chanVars, m_mutex, cvVars, ip, pc,
                 cur, got, logVars, assertVars>>

\* The steps of a thread of the sieve: every channel has one sender, so no send
\* waits at send-begin.
SieveStep(t) ==
  \/ SendLock(t) \/ SendBeginWait(t) \/ SendDeposit(t) \/ SendNotifyRecv(t)
  \/ SendEndLock(t) \/ SendEndWait(t) \/ SendEndWake(t) \/ SendAck(t)
  \/ SendNotifyBegin(t) \/ Recv(t)

SieveInit ==
  /\ cap = [c \in SieveChans |-> 0]
  /\ ChannelInitOn(SieveChans)
  /\ ThreadInitOn(SieveThreads, SieveChans)
  /\ prog = [t \in SieveThreads |-> IF t = TestThread THEN sieve_test ELSE <<>>]

SieveNext ==
  \/ sieve_numbers
  \/ \E j \in 1..(MaxPrimeIndex - 1) : filter_numbers(j)
  \/ \E t \in SieveThreads : SieveStep(t) \/ SpuriousWakeup(t)

SieveSpec ==
  SieveInit /\ [][SieveNext]_vars
    /\ \A t \in SieveThreads : SF_vars(SieveStep(t))
    /\ WF_vars(sieve_numbers)
    /\ \A j \in 1..(MaxPrimeIndex - 1) : WF_vars(filter_numbers(j))

\* every thread has returned from its thread function
SieveTerminated ==
  /\ \A t \in SieveThreads : AtEnd(t) /\ prog[t] # <<>>
  /\ ~ENABLED sieve_numbers
  /\ \A j \in 1..(MaxPrimeIndex - 1) : ~ENABLED filter_numbers(j)

\* C18: the values received on the output channel of the daisy-chained sieve
\* with prime bound N are exactly the primes <= N in increasing order, each
\* once, and after the last one the generator, every filter and the sieve
\* thread terminate.
C18_SieveEmitsPrimes ==
  /\ [](IsPrefix(got[TestThread], expected))
  /\ [](\A p \in Range(expected) : IsPrime(p) /\ p <= SieveN)
  /\ [](\A p \in 2..SieveN : IsPrime(p) => p \in Range(expected))
  /\ <>[](got[TestThread] = expected /\ SieveTerminated)

\* all primes up to N have been received and every thread is done; the first
\* filter dropped 4 and passed on 3 and 5
C18_Witness ==
  /\ got[TestThread] = expected
  /\ SieveTerminated
  /\ got[FilterThread(1)] = <<3, 4, 5>>

\* ---- the send-in-progress flag ----
\* the senders of channel c between their deposit and the end of their
\* acknowledgement step
InProgress(c) == {t \in DOMAIN prog : InPhaseB(t, c)}

\* C19: m_is_send_done is false exactly while some sender is between its
\* deposit and the end of its acknowledgement step; at most one sender is
\* there at a time, and while one is no element is added to the buffer.
C19_FlagMarksOneSender ==
  /\ [](\A c \in DOMAIN m_buffer :
          /\ ~m_is_send_done[c] <=> InProgress(c) # {}
          /\ Cardinality(InProgress(c)) <= 1)
  /\ [][\A c \in DOMAIN m_buffer :
          InProgress(c) # {} => Len(m_buffer'[c]) <= Len(m_buffer[c])]_vars

\* a second sender waits at send-begin though the buffer has room, while the
\* first, whose element has been taken, has not finished its acknowledgement
C19_Witness ==
  \E c \in DOMAIN m_buffer : \E t, u \in DOMAIN prog :
    /\ cap[c] >= 1 /\ m_buffer[c] = <<>> /\ dequeued[c] # <<>>
    /\ InPhaseB(t, c)
    /\ pc[u] = "send_begin_blocked" /\ cur[u].ch = c

\* C20: whenever no sender is between its deposit and its acknowledgement,
\* m_is_send_done is true and the buffer holds at most N elements, so that the
\* send-begin predicate is true; no state has the buffer full while
\* m_is_send_done is true; and no step that takes an element from a buffer
\* makes the send-begin predicate false.
C20_IdleMeansReady ==
  /\ [](\A c \in DOMAIN m_buffer :
          /\ InProgress(c) = {} =>
               /\ m_is_send_done[c] /\ Len(m_buffer[c]) <= cap[c]
               /\ SendBeginPred(c)
          /\ ~(is_full(c) /\ m_is_send_done[c]))
  /\ [][\A c \in DOMAIN m_buffer :
          (SendBeginPred(c) /\ Len(m_buffer'[c]) < Len(m_buffer[c]))
            => (~is_full_buf(m_buffer'[c], c) /\ m_is_send_done'[c])]_vars

\* a sender sleeps at send-begin after the sender it waited for has finished:
\* the channel is idle and holds N elements
C20_Witness ==
  \E c \in DOMAIN m_buffer : \E u \in DOMAIN prog :
    /\ InProgress(c) = {} /\ cap[c] >= 1 /\ Len(m_buffer[c]) = cap[c]
    /\ pc[u] = "send_begin_blocked" /\ cur[u].ch = c
    /\ dequeued[c] # <<>>

\* ---- waiting at send-begin ----
\* thread u is inside _send on channel c: it will deposit, or it has deposited
\* and will notify send-begin when it is done
InSend(u, c) ==
  /\ cur[u].kind = "send" /\ cur[u].ch = c
  /\ \/ InPhaseB(u, c)
     \/ pc[u] \in {"send_begin_wait", "send_deposit", "send_notify_begin"}
     \/ pc[u] = "send_begin_blocked" /\ u \notin m_send_begin_cv[c]

Thrown == 0 - 1

\* an exception leaves the channel operation: the caller catches it and goes on
Throw(t) ==
  /\ got' = [got EXCEPT ![t] = Append(@, Thrown)]
  /\ ip' = [ip EXCEPT ![t] = @ + 1]
  /\ pc' = [pc EXCEPT ![t] = "idle"]
  /\ cur' = [cur EXCEPT ![t] = NoOp]

RecvRefOp(c) == [kind |-> "recv_ref", ch |-> c, val |-> 0, mode |-> "", cases |-> <<>>]

RecvPtrOp(c) == [kind |-> "recv_ptr", ch |-> c, val |-> 0, mode |-> "", cases |-> <<>>]

\* m_buffer.emplace_back(get_id(), std::forward<U>(u)) throws: the deque is as
\* before, m_is_send_done = false is not reached, unwinding releases the lock
SendDepositThrows(t) ==
  LET c == cur[t].ch IN
  /\ pc[t] = "send_deposit"
  /\ Unlock(t, c)
  /\ Throw(t)
  /\ UNCHANGED <<handleVars, selVars, cap, chanVars, cvVars, prog, logVars, assertVars>>

\* ---- void recv(T& t) ----
\* std::unique_lock<std::mutex> lock(m_mutex);
RecvRefLock(t) ==
  /\ pc[t] = "idle"
  /\ Op(t).kind = "recv_ref"
  /\ Lock(t, Op(t).ch)
  /\ cur' = [cur EXCEPT ![t] = Op(t)]
  /\ pc' = [pc EXCEPT ![t] = "recv_ref_wait"]
  /\ UNCHANGED <<handleVars, selVars, cap, chanVars, cvVars, prog, ip, got, logVars, assertVars>>

\* _wait_until_nonempty(lock);
RecvRefWait(t) ==
  LET c == cur[t].ch IN
  /\ pc[t] = "recv_ref_wait"
  /\ IF NonEmpty(c)
       THEN /\ pc' = [pc EXCEPT ![t] = "recv_ref_take"]
            /\ UNCHANGED <<m_mutex, m_recv_cv>>
       ELSE /\ Unlock(t, c)
            /\ m_recv_cv' = [m_recv_cv EXCEPT ![c] = @ \cup {t}]
            /\ pc' = [pc EXCEPT ![t] = "recv_ref_blocked"]
  /\ UNCHANGED <<handleVars, selVars, cap, chanVars, m_send_begin_cv, m_send_end_cv, prog, ip, cur,
                 got, logVars, assertVars>>

RecvRefWake(t) ==
  LET c == cur[t].ch IN
  /\ pc[t] = "recv_ref_blocked"
  /\ t \notin m_recv_cv[c]
  /\ Lock(t, c)
  /\ pc' = [pc EXCEPT ![t] = "recv_ref_wait"]
  /\ UNCHANGED <<handleVars, selVars, cap, chanVars, cvVars, prog, ip, cur, got, logVars, assertVars>>

\* pair(std::move(m_buffer.front())); assert(!is_full() || get_id() != pair.first);
\* m_buffer.pop_front(); assert(!is_full());
RecvRefTake(t) ==
  LET c == cur[t].ch
      pair == front(m_buffer[c])
  IN
  /\ pc[t] = "recv_ref_take"
  /\ assert_self' = (assert_self /\ (~is_full(c) \/ t # pair.sender))
  /\ m_buffer' = [m_buffer EXCEPT ![c] = pop_front(@)]
  /\ assert_full' = (assert_full /\ ~is_full_buf(pop_front(m_buffer[c]), c))
  /\ dequeued' = [dequeued EXCEPT ![c] = Append(@, pair)]
  /\ taker' = [taker EXCEPT ![c] = Append(@, [thread |-> t, op |-> ip[t]])]
  /\ cur' = [cur EXCEPT ![t].val = pair.val]
  /\ pc' = [pc EXCEPT ![t] = "recv_ref_deliver"]
  /\ UNCHANGED <<handleVars, selVars, cap, m_is_send_done, m_mutex, cvVars, prog, ip, got, deposited>>

\* t = std::move(pair.second); } (unlock): or the move assignment throws and
\* unwinding releases the lock
RecvRefAssign(t) ==
  LET c == cur[t].ch IN
  /\ pc[t] = "recv_ref_deliver"
  /\ Unlock(t, c)
  /\ \/ /\ got' = [got EXCEPT ![t] = Append(@, cur[t].val)]
        /\ pc' = [pc EXCEPT ![t] = "recv_ref_notify"]
        /\ UNCHANGED <<ip, cur>>
     \/ Throw(t)
  /\ UNCHANGED <<handleVars, selVars, cap, chanVars, cvVars, prog, logVars, assertVars>>

\* m_send_end_cv.notify_one();
RecvRefNotify(t) ==
  LET c == cur[t].ch IN
  /\ pc[t] = "recv_ref_notify"
  /\ \E S \in notify_one(m_send_end_cv[c]) :
       m_send_end_cv' = [m_send_end_cv EXCEPT ![c] = S]
  /\ Return(t)
  /\ UNCHANGED <<handleVars, selVars, cap, chanVars, m_mutex, m_send_begin_cv, m_recv_cv, prog,
                 got, logVars, assertVars>>

RecvRef(t) ==
  \/ RecvRefLock(t) \/ RecvRefWait(t) \/ RecvRefWake(t) \/ RecvRefTake(t)
  \/ RecvRefAssign(t) \/ RecvRefNotify(t)

\* ---- std::unique_ptr<T> recv_ptr() ----
\* std::unique_lock<std::mutex> lock(m_mutex);
RecvPtrLock(t) ==
  /\ pc[t] = "idle"
  /\ Op(t).kind = "recv_ptr"
  /\ Lock(t, Op(t).ch)
  /\ cur' = [cur EXCEPT ![t] = Op(t)]
  /\ pc' = [pc EXCEPT ![t] = "recv_ptr_wait"]
  /\ UNCHANGED <<handleVars, selVars, cap, chanVars, cvVars, prog, ip, got, logVars, assertVars>>

\* _wait_until_nonempty(lock);
RecvPtrWait(t) ==
  LET c == cur[t].ch IN
  /\ pc[t] = "recv_ptr_wait"
  /\ IF NonEmpty(c)
       THEN /\ pc' = [pc EXCEPT ![t] = "recv_ptr_take"]
            /\ UNCHANGED <<m_mutex, m_recv_cv>>
       ELSE /\ Unlock(t, c)
            /\ m_recv_cv' = [m_recv_cv EXCEPT ![c] = @ \cup {t}]
            /\ pc' = [pc EXCEPT ![t] = "recv_ptr_blocked"]
  /\ UNCHANGED <<handleVars, selVars, cap, chanVars, m_send_begin_cv, m_send_end_cv, prog, ip, cur,
                 got, logVars, assertVars>>

RecvPtrWake(t) ==
  LET c == cur[t].ch IN
  /\ pc[t] = "recv_ptr_blocked"
  /\ t \notin m_recv_cv[c]
  /\ Lock(t, c)
  /\ pc' = [pc EXCEPT ![t] = "recv_ptr_wait"]
  /\ UNCHANGED <<handleVars, selVars, cap, chanVars, cvVars, prog, ip, cur, got, logVars, assertVars>>

\* pair(std::move(m_buffer.front())); assert(!is_full() || get_id() != pair.first);
\* m_buffer.pop_front(); assert(!is_full());
RecvPtrTake(t) ==
  LET c == cur[t].ch
      pair == front(m_buffer[c])
  IN
  /\ pc[t] = "recv_ptr_take"
  /\ assert_self' = (assert_self /\ (~is_full(c) \/ t # pair.sender))
  /\ m_buffer' = [m_buffer EXCEPT ![c] = pop_front(@)]
  /\ assert_full' = (assert_full /\ ~is_full_buf(pop_front(m_buffer[c]), c))
  /\ dequeued' = [dequeued EXCEPT ![c] = Append(@, pair)]
  /\ taker' = [taker EXCEPT ![c] = Append(@, [thread |-> t, op |-> ip[t]])]
  /\ cur' = [cur EXCEPT ![t].val = pair.val]
  /\ pc' = [pc EXCEPT ![t] = "recv_ptr_deliver"]
  /\ UNCHANGED <<handleVars, selVars, cap, m_is_send_done, m_mutex, cvVars, prog, ip, got, deposited>>

\* std::unique_ptr<T> t_ptr(make_unique<T>(std::move(pair.second))): or the
\* allocation or the move throws and unwinding releases the lock
RecvPtrMake(t) ==
  LET c == cur[t].ch IN
  /\ pc[t] = "recv_ptr_deliver"
  /\ \/ /\ pc' = [pc EXCEPT ![t] = "recv_ptr_unlock"]
        /\ UNCHANGED <<m_mutex, ip, cur, got>>
     \/ /\ Unlock(t, c)
        /\ Throw(t)
  /\ UNCHANGED <<handleVars, selVars, cap, chanVars, cvVars, prog, logVars, assertVars>>

\* lock.unlock();
RecvPtrUnlock(t) ==
  /\ pc[t] = "recv_ptr_unlock"
  /\ Unlock(t, cur[t].ch)
  /\ pc' = [pc EXCEPT ![t] = "recv_ptr_notify"]
  /\ UNCHANGED <<handleVars, selVars, cap, chanVars, cvVars, prog, ip, cur, got, logVars, assertVars>>

\* m_send_end_cv.notify_one(); return t_ptr;
RecvPtrNotify(t) ==
  LET c == cur[t].ch IN
  /\ pc[t] = "recv_ptr_notify"
  /\ \E S \in notify_one(m_send_end_cv[c]) :
       m_send_end_cv' = [m_send_end_cv EXCEPT ![c] = S]
  /\ got' = [got EXCEPT ![t] = Append(@, cur[t].val)]
  /\ Return(t)
  /\ UNCHANGED <<handleVars, selVars, cap, chanVars, m_mutex, m_send_begin_cv, m_recv_cv, prog,
                 logVars, assertVars>>

RecvPtr(t) ==
  \/ RecvPtrLock(t) \/ RecvPtrWait(t) \/ RecvPtrWake(t) \/ RecvPtrTake(t)
  \/ RecvPtrMake(t) \/ RecvPtrUnlock(t) \/ RecvPtrNotify(t)

\* spurious wake-ups of the waits of recv(T&) and recv_ptr()
SpuriousWakeupRecv(t) ==
  LET c == cur[t].ch IN
  /\ pc[t] \in {"recv_ref_blocked", "recv_ptr_blocked"} /\ t \in m_recv_cv[c]
  /\ m_recv_cv' = [m_recv_cv EXCEPT ![c] = @ \ {t}]
  /\ UNCHANGED <<handleVars, selVars, cap, chanVars, m_mutex, m_send_begin_cv, m_send_end_cv,
                 prog, ip, pc, cur, got, logVars, assertVars>>

ThrowStep(t) == Step(t) \/ SendDepositThrows(t) \/ RecvRef(t) \/ RecvPtr(t)

\* ---- one channel; CoreThreads threads, each one send or one receive of any
\*      variant; copies, moves and allocations may throw ----
ThrowThreads == 1..CoreThreads

ThrowChans == {1}

VariantOp(t, k) ==
  CASE k = "send" -> SendOp(1, ValueOf(t, 1))
    [] k = "recv" -> RecvOp(1)
    [] k = "recv_ref" -> RecvRefOp(1)
    [] k = "recv_ptr" -> RecvPtrOp(1)

ThrowInit ==
  /\ cap \in [ThrowChans -> 0..MaxCap]
  /\ ChannelInitOn(ThrowChans)
  /\ ThreadInitOn(ThrowThreads, ThrowChans)
  /\ \E q \in [ThrowThreads -> {"send", "recv", "recv_ref", "recv_ptr"}] :
       prog = [t \in ThrowThreads |-> <<VariantOp(t, q[t])>>]

ThrowNext ==
  \E t \in ThrowThreads : ThrowStep(t) \/ SpuriousWakeup(t) \/ SpuriousWakeupRecv(t)

ThrowSpec == ThrowInit /\ [][ThrowNext]_vars

\* thread r has removed an element of channel c and has not yet left its
\* receive call
AfterRemoval(r, c) ==
  /\ cur[r].ch = c
  /\ pc[r] \in {"recv_unlock", "recv_notify", "recv_ref_deliver", "recv_ref_notify",
                "recv_ptr_deliver", "recv_ptr_unlock", "recv_ptr_notify"}

\* C22: in every receive variant a removal is followed by a send-end
\* notification on every path, also when delivering the value throws; so a
\* sender never sleeps un-notified at send-end of a buffer that is no longer
\* full unless the receiver that removed the element is still on its way to
\* notify.
C22_RemovalAlwaysNotifies ==
  \A c \in DOMAIN m_buffer : \A s \in m_send_end_cv[c] :
    ~is_full(c) => \E r \in DOMAIN prog : AfterRemoval(r, c)

\* C23: a deposit that throws leaves the channel as it was before the call
\* (buffer and m_is_send_done unchanged, mutex released), so the other threads
\* proceed as if the failed send had never been called: a sender that sleeps
\* un-notified at send-begin still has a sender ahead of it on that channel
\* that will notify send-begin when it is done.
C23_ThrowingDepositLeavesNoTrace ==
  \A c \in DOMAIN m_buffer : \A s \in m_send_begin_cv[c] :
    \E u \in DOMAIN prog \ {s} : InSend(u, c)

RecvKinds == {"recv", "recv_ref", "recv_ptr"}

\* C24: recv(), recv(T&) and recv_ptr() are interchangeable with respect to
\* the channel: a call of any of them goes to sleep on m_recv_cv only when the
\* buffer is empty, removes the front element and leaves the rest of the buffer
\* and m_is_send_done as they are, and ends by notifying send-end with the
\* mutex released and the removed value handed to its caller.
C24_VariantsInterchangeable ==
  [][\A t \in DOMAIN prog :
       (cur[t].kind \in RecvKinds /\ pc'[t] # pc[t]) =>
         LET c == cur[t].ch IN
         /\ (t \in m_recv_cv'[c] /\ t \notin m_recv_cv[c]) => m_buffer[c] = <<>>
         /\ m_buffer' # m_buffer =>
              /\ m_buffer[c] # <<>>
              /\ m_buffer' = [m_buffer EXCEPT ![c] = Tail(@)]
              /\ cur'[t].val = Head(m_buffer[c]).val
              /\ m_is_send_done' = m_is_send_done
         /\ ip'[t] # ip[t] =>
              /\ pc[t] \in {"recv_notify", "recv_ref_notify", "recv_ptr_notify"}
              /\ m_mutex[c] # t
              /\ got'[t] # <<>> /\ got'[t][Len(got'[t])] = cur[t].val]_vars

\* ---- a descriptor of two receive cases executed again and again ----
Listener == 1

StarveThreads == 1..3

StarveChans == {1, 2}

\* while (!exit) { cpp::select().recv(c1, cb).recv(c2, cb).wait(); }
listen_wait ==
  <<SelectOp("wait", <<SelCase(Listener, 1, 1, "recv", 1),
                       SelCase(Listener, 1, 2, "recv", 2)>>)>>

\* for (...) out.send(i): thread 1 + c feeds channel c
send_chars(c) == <<SendOp(c, ValueOf(1 + c, 1))>>

\* the loop body is done and is entered again; the observation logs cover the
\* current iteration only
Loop(t) ==
  /\ pc[t] = "idle"
  /\ ip[t] > Len(prog[t])
  /\ ip' = [ip EXCEPT ![t] = 1]
  /\ got' = [got EXCEPT ![t] = <<>>]
  /\ fired' = [fired EXCEPT ![t] = <<>>]
  /\ called' = [called EXCEPT ![t] = <<>>]
  /\ deposited' = [c \in DOMAIN deposited |-> <<>>]
  /\ dequeued' = [c \in DOMAIN dequeued |-> <<>>]
  /\ taker' = [c \in DOMAIN taker |-> <<>>]
  /\ UNCHANGED <<handleVars, cap, chanVars, m_mutex, cvVars, prog, pc, cur, sel_i, assertVars>>

StarveInit ==
  /\ cap \in [StarveChans -> 0..MaxCap]
  /\ ChannelInitOn(StarveChans)
  /\ ThreadInitOn(StarveThreads, StarveChans)
  /\ prog = <<listen_wait, send_chars(1), send_chars(2)>>

\* The steps of a thread of this program: no channel has two senders, so no
\* send waits at send-begin; the descriptor waits, so it never gives up; the
\* only receiver is the descriptor.
StarveStep(t) ==
  \/ SendLock(t) \/ SendBeginWait(t) \/ SendDeposit(t) \/ SendNotifyRecv(t)
  \/ SendEndLock(t) \/ SendEndWait(t) \/ SendEndWake(t) \/ SendAck(t)
  \/ SendNotifyBegin(t)
  \/ RecvTake(t) \/ RecvUnlock(t) \/ RecvNotify(t)
  \/ SelBegin(t) \/ SelQuery(t) \/ SelClaim(t) \/ SelRetry(t) \/ SelCallback(t)
  \/ Loop(t)

StarveNext == \E t \in StarveThreads : StarveStep(t) \/ SpuriousWakeup(t)

StarveSpec ==
  StarveInit /\ [][StarveNext]_vars /\ \A t \in StarveThreads : SF_vars(StarveStep(t))

\* case k of the listener's descriptor has just been claimed
Firing(k) == pc[Listener] = "recv_take" /\ sel_i[Listener] = k

\* C25: no starvation in select: when a thread executes a descriptor again and
\* again and one of its cases is ready at every execution (here: from some
\* time on its channel is never empty), that case is fired, even if the other
\* case is ready at every execution too.
C25_NoStarvation ==
  \A k \in 1..2 : (<>[]RecvReady(listen_wait[1].cases[k].ch)) => []<>Firing(k)

\* ---- conservation of messages ----
\* C26: conservation of messages: on every channel the sequence of deposited
\* elements is the sequence of dequeued elements followed by the buffer; no
\* deposited element is dequeued twice; every deposited element is the value
\* of a send call of its sender; every value a receive call returned was
\* dequeued from a channel, and no dequeued element was returned twice.
C26_Conservation ==
  /\ \A c \in DOMAIN m_buffer :
       /\ deposited[c] = dequeued[c] \o m_buffer[c]
       /\ \A i, j \in DOMAIN deposited[c] : deposited[c][i] = deposited[c][j] => i = j
       /\ \A i \in DOMAIN deposited[c] :
            \E k \in DOMAIN prog[deposited[c][i].sender] :
              prog[deposited[c][i].sender][k] = SendOp(c, deposited[c][i].val)
  /\ \A t \in DOMAIN got : \A i \in DOMAIN got[t] :
       /\ \E c \in DOMAIN dequeued : \E k \in DOMAIN dequeued[c] :
            dequeued[c][k].val = got[t][i]
       /\ \A u \in DOMAIN got : \A j \in DOMAIN got[u] :
            got[u][j] = got[t][i] => (u = t /\ j = i)

\* three elements were deposited on a capacity-2 channel: one has been
\* received and returned, two are in the buffer
C26_Witness ==
  \E c \in DOMAIN m_buffer :
    /\ cap[c] = 2 /\ Len(m_buffer[c]) = 2 /\ Len(dequeued[c]) = 1
    /\ \E t \in DOMAIN got : got[t] = <<dequeued[c][1].val>>

\* ---- the depositor of the back element of a full buffer ----
back(buf) == buf[Len(buf)]

\* C27: whenever the buffer is full (it holds N + 1 elements), the thread that
\* deposited the back element is still inside that send call, before its
\* acknowledgement, for every capacity N; so on a capacity-0 channel the
\* assertion of recv that the receiver is not the sender never fails.
C27_BackDepositorStillSending ==
  /\ \A c \in DOMAIN m_buffer :
       is_full(c) =>
         /\ InPhaseB(back(m_buffer[c]).sender, c)
         /\ cur[back(m_buffer[c]).sender].val = back(m_buffer[c]).val
         /\ pc[back(m_buffer[c]).sender] # "send_ack"
  /\ (\A c \in DOMAIN cap : cap[c] = 0) => assert_self

\* a thread that has sent on the capacity-0 channel before evaluates the
\* assertion while the buffer is full with another thread's element
C27_Witness ==
  \E t \in DOMAIN prog :
    /\ pc[t] = "recv_take" /\ cap[cur[t].ch] = 0 /\ is_full(cur[t].ch)
    /\ ip[t] = 2 /\ prog[t][1].kind = "send"
    /\ back(m_buffer[cur[t].ch]).sender # t

====
